---------------------------- MODULE Spec2Model ----------------------------
(***************************************************************************)
(* Moment Expansion Approximation (pihop/means).                           *)
(*                                                                         *)
(*   SpecCounters     : generate_n_and_k_counters                           *)
(*   SpecMEA          : MomentExpansionApproximation.__init__ and run()    *)
(*   SpecODE          : ODEProblem.__init__ / make_moment_dic / validate   *)
(*   SpecODEUse       : SpecODE and a caller's use of the built problem    *)
(*   SpecMixedMoments : eq_mixedmoments                                    *)
(*   SpecSubstitute   : substitute_raw_with_central                        *)
(*   SpecParse        : parse_model                                        *)
(*   Spec             : all of them together                               *)
(***************************************************************************)
EXTENDS Integers, Sequences, FiniteSets, TLC

(* ------------------------------ bounds --------------------------------- *)

\* largest number of species of a model
MaxSpecies == 2

\* largest truncation order (n_moments) passed in
MaxOrder == 3

\* the names a model gives its species (sample_models.py uses y_0, y_1, ...);
\* "yx2" is a legal name that falls into the family of central symbols
SpeciesNames == {"y_0", "y_1", "yx2"}

\* the species lists of the models: distinct names, 0 .. MaxSpecies of them
SpeciesLists ==
    UNION { { s \in [1..n -> SpeciesNames] :
                \A i, j \in 1..n : i # j => s[i] # s[j] } : n \in 0..MaxSpecies }

\* the truncation orders passed in: nothing in the code restricts them
Orders == (0 - 1)..MaxOrder

\* largest number of rows of the matrices and of entries of the moments list
\* handed to ODEProblem
MaxRows == 3

\* largest number of operations a caller performs on a constructed ODEProblem
MaxCallerOps == 2

VARIABLES
    \* --- generate_n_and_k_counters
    cg_pc,        \* "idle" | "called" | "returned"
    species,      \* the argument / local species (list of symbols)
    n_moments,    \* the argument / local n_moments
    n_counter,    \* the central counter
    k_counter,    \* the raw counter
    prev_call,    \* the previous completed call: arguments and results
    \* --- MomentExpansionApproximation
    mea_pc,       \* "idle" | "new" | "constructed" | "running" | "done" | "raised"
    mea_args,     \* the arguments of __init__: model, n_moments, closer
    mea_self,     \* the fields of the object: model, n_moments, closer
    mea_raised,   \* the exception that ended __init__, if any
    stages_done,  \* the statements of run() executed so far, in order
    \* --- ODEProblem
    ode_pc,       \* "idle" | "new" | "constructed" | "raised"
    ode_args,     \* the arguments of __init__
    left_hand_side,    \* self.__left_hand_side
    right_hand_side,   \* self.__right_hand_side
    constants,         \* self.__constants
    moment_dic,        \* self.__moment_dic
    ode_raised,   \* the exception that ended __init__, if any
    at_construction,   \* what the four getters returned when __init__ returned
    caller_op,    \* the caller's last operation on the problem and its outcome
    n_caller_ops, \* the number of operations the caller has performed
    \* --- eq_mixedmoments
    mm_pc,        \* "idle" | "called" | "returned" | "raised"
    mm_args,      \* amat, counter, S, ymat, kvec, ekcounter
    mm_computed,  \* the lists of the function computed so far, in order
    mm_result,    \* the returned row
    mm_raised,    \* the exception that ended the call, if any
    \* --- substitute_raw_with_central
    sub_pc,       \* "idle" | "called" | "returned" | "raised"
    sub_args,     \* central_moments_exprs, central_from_raw_exprs, n_counter, k_counter
    sub_steps,    \* the substitutions and simplifications applied, in order
    sub_result,   \* the returned expressions
    sub_raised,   \* the exception that ended the call, if any
    \* --- parse_model
    pm_pc,        \* "idle" | "called" | "returned" | "raised"
    pm_file,      \* the lines of the input file
    pm_printed,   \* what the call printed
    pm_result,    \* the arguments the ODEProblem is built from
    pm_raised     \* the exception that ended the call, if any

cg_vars == <<cg_pc, species, n_moments, n_counter, k_counter, prev_call>>

mea_vars == <<mea_pc, mea_args, mea_self, mea_raised, stages_done>>

ode_vars == <<ode_pc, ode_args, left_hand_side, right_hand_side, constants,
              moment_dic, ode_raised, at_construction, caller_op, n_caller_ops>>

mm_vars == <<mm_pc, mm_args, mm_computed, mm_result, mm_raised>>

sub_vars == <<sub_pc, sub_args, sub_steps, sub_result, sub_raised>>

pm_vars == <<pm_pc, pm_file, pm_printed, pm_result, pm_raised>>

vars == <<cg_vars, mea_vars, ode_vars, mm_vars, sub_vars, pm_vars>>

\* python's None
None == "None"

\* no exception was raised
NoException == [type |-> None]

NoCall == [made |-> FALSE]

\* no call of generate_n_and_k_counters is in progress
IdleCounters ==
    /\ cg_pc = "idle"
    /\ species = <<>>
    /\ n_moments = 0
    /\ n_counter = <<>>
    /\ k_counter = <<>>
    /\ prev_call = NoCall

\* no MomentExpansionApproximation is being built or run
IdleMEA ==
    /\ mea_pc = "idle"
    /\ mea_args = None
    /\ mea_self = None
    /\ mea_raised = NoException
    /\ stages_done = <<>>

\* no ODEProblem is being built
IdleODE ==
    /\ ode_pc = "idle"
    /\ ode_args = None
    /\ left_hand_side = None
    /\ right_hand_side = None
    /\ constants = None
    /\ moment_dic = None
    /\ ode_raised = NoException
    /\ at_construction = None
    /\ caller_op = None
    /\ n_caller_ops = 0

\* no call of eq_mixedmoments is in progress
IdleMixedMoments ==
    /\ mm_pc = "idle"
    /\ mm_args = None
    /\ mm_computed = <<>>
    /\ mm_result = None
    /\ mm_raised = NoException

\* no call of substitute_raw_with_central is in progress
IdleSubstitute ==
    /\ sub_pc = "idle"
    /\ sub_args = None
    /\ sub_steps = <<>>
    /\ sub_result = None
    /\ sub_raised = NoException

\* no call of parse_model is in progress
IdleParse ==
    /\ pm_pc = "idle"
    /\ pm_file = <<>>
    /\ pm_printed = <<>>
    /\ pm_result = None
    /\ pm_raised = NoException

(* --------------------------- python helpers ---------------------------- *)

\* the list a comprehension builds: every element is computed once, in order
List(f) == <<>> \o f

RECURSIVE Sum(_)
\* sum(x)
Sum(x) == IF x = <<>> THEN 0 ELSE Head(x) + Sum(Tail(x))

\* range(n): 0, 1, ..., n-1; empty when n <= 0
Range(n) == [i \in 1..n |-> i - 1]

RECURSIVE Product(_, _)
\* itertools.product(pool, repeat=r):
\*   result = [[]]; for each repetition: result = [x+[y] for x in result for y in pool]
Product(pool, r) ==
    IF r = 0 THEN << <<>> >>
    ELSE LET result == Product(pool, r - 1)
             m      == Len(pool)
         IN  [idx \in 1..(Len(result) * m) |->
                 Append(result[((idx - 1) \div m) + 1], pool[((idx - 1) % m) + 1])]

RECURSIVE Join(_, _)
\* sep.join(strs)
Join(strs, sep) ==
    IF strs = <<>> THEN ""
    ELSE IF Len(strs) = 1 THEN strs[1]
    ELSE strs[1] \o sep \o Join(Tail(strs), sep)

\* Moment(n_vector, symbol); Moment.order is the sum of the vector
Moment(n_vector, symbol) == [n_vector |-> n_vector, symbol |-> symbol]

order(moment) == Sum(moment.n_vector)

(* ---------------------- generate_n_and_k_counters ---------------------- *)

\* the cmp function of line 127: lambda x,y: sum(x) - sum(y)
SumCmp(x, y) == Sum(x) - Sum(y)

\* a variant of InsertSorted that puts x before the entries it compares equal to
InsertSortedBeforeEqual(srt, x) ==
    LET pos == Cardinality({i \in 1..Len(srt) : SumCmp(srt[i], x) < 0})
    IN  SubSeq(srt, 1, pos) \o <<x>> \o SubSeq(srt, pos + 1, Len(srt))

\* one step of a stable sort: x goes after every entry that does not compare
\* greater than it (srt is sorted, so these entries are a prefix of srt)
InsertSorted(srt, x) ==
    LET pos == Cardinality({i \in 1..Len(srt) : SumCmp(srt[i], x) <= 0})
    IN  SubSeq(srt, 1, pos) \o <<x>> \o SubSeq(srt, pos + 1, Len(srt))

RECURSIVE Sorted(_)
\* sorted(seq, cmp): python's sort is stable
Sorted(seq) ==
    IF seq = <<>> THEN <<>>
    ELSE InsertSorted(Sorted(SubSeq(seq, 1, Len(seq) - 1)), seq[Len(seq)])

\* line 110 / 111: Moment([0] * len(species), sp.Integer(1))
ZeroMoment(sp) == Moment([i \in 1..Len(sp) |-> 0], "1")

\* lines 114-118 with the 1 placed from the end of the row (row[-1-i] = 1)
DescriptorsReversed(sp) ==
    [i \in 1..Len(sp) |-> [j \in 1..Len(sp) |-> IF j = Len(sp) + 1 - i THEN 1 ELSE 0]]

\* lines 114-118: the descriptors of the first order raw moments
Descriptors(sp) ==
    [i \in 1..Len(sp) |-> [j \in 1..Len(sp) |-> IF j = i THEN 1 ELSE 0]]

\* line 124 with the filter sum(i) < n_moments in place of sum(i) <= n_moments
HigherOrderTuplesBelow(n, sp) ==
    SelectSeq(Product(Range(n + 1), Len(sp)),
              LAMBDA i : Sum(i) < n /\ Sum(i) > 1)

\* line 124: the tuples of itertools.product with 1 < sum <= n_moments
HigherOrderTuples(n, sp) ==
    SelectSeq(Product(Range(n + 1), Len(sp)),
              LAMBDA i : Sum(i) <= n /\ Sum(i) > 1)

\* lines 124-127 without the sort of line 127
KCounterDescriptorsUnsorted(n, sp) == HigherOrderTuples(n, sp)

\* lines 124-127: k_counter_descriptors
KCounterDescriptors(n, sp) == Sorted(HigherOrderTuples(n, sp))

\* line 129: sp.S("x_" + "_".join([str(s) for s in count]))
KCounterSymbol(count) ==
    "x_" \o Join([i \in 1..Len(count) |-> ToString(count[i])], "_")

\* line 133 with the filter sum(m) > 2
NCounterDescriptorsAboveTwo(kdesc) == SelectSeq(kdesc, LAMBDA m : Sum(m) > 2)

\* line 133: n_counter_descriptors
NCounterDescriptors(kdesc) == SelectSeq(kdesc, LAMBDA m : Sum(m) > 1)

\* line 136: sp.S('yx{0}'.format(i+2)), i counted from 0
NCounterSymbol(i) == "yx" \o ToString(i + 2)

\* zip(a, b) turned into Moments: [Moment(d, s) for d,s in zip(a, b)]
ZipMoments(ds, ss) ==
    [i \in 1..(IF Len(ds) < Len(ss) THEN Len(ds) ELSE Len(ss)) |->
        Moment(ds[i], ss[i])]

\* lines 98-139
generate_n_and_k_counters(n, sp) ==
    LET kdesc == KCounterDescriptors(n, sp)
        ksym  == [i \in 1..Len(kdesc) |-> KCounterSymbol(kdesc[i])]
        ndesc == NCounterDescriptors(kdesc)
        nsym  == [i \in 1..Len(ndesc) |-> NCounterSymbol(i - 1)]
    IN  [k_counter |-> <<ZeroMoment(sp)>> \o ZipMoments(Descriptors(sp), sp)
                          \o ZipMoments(kdesc, ksym),
         n_counter |-> <<ZeroMoment(sp)>> \o ZipMoments(ndesc, nsym)]

(* ------------------ calls of generate_n_and_k_counters ----------------- *)

InitCounters ==
    /\ cg_pc = "called"
    /\ species \in SpeciesLists
    /\ n_moments \in Orders
    /\ n_counter = <<>>
    /\ k_counter = <<>>
    /\ prev_call = NoCall
    /\ IdleMEA
    /\ IdleODE
    /\ IdleMixedMoments
    /\ IdleSubstitute
    /\ IdleParse

\* the call runs to its return statement (line 139); nothing in it raises
GenerateCounters ==
    /\ cg_pc = "called"
    /\ LET r == generate_n_and_k_counters(n_moments, species)
       IN  /\ n_counter' = r.n_counter
           /\ k_counter' = r.k_counter
    /\ cg_pc' = "returned"
    /\ UNCHANGED <<species, n_moments, prev_call, mea_vars, ode_vars,
                 mm_vars, sub_vars, pm_vars>>

\* the caller makes another call, with any arguments
CallAgain ==
    /\ cg_pc = "returned"
    /\ prev_call' = [made |-> TRUE, species |-> species, n_moments |-> n_moments,
                     n_counter |-> n_counter, k_counter |-> k_counter]
    /\ species' \in SpeciesLists
    /\ n_moments' \in Orders
    /\ n_counter' = <<>>
    /\ k_counter' = <<>>
    /\ cg_pc' = "called"
    /\ UNCHANGED <<mea_vars, ode_vars,
                 mm_vars, sub_vars, pm_vars>>

NextCounters == GenerateCounters \/ CallAgain

SpecCounters == InitCounters /\ [][NextCounters]_vars


(* ------------- properties of generate_n_and_k_counters ----------------- *)

\* the multi-indices of a counter, in counter order
Indices(counter) == [i \in 1..Len(counter) |-> counter[i].n_vector]

IndexSet(counter) == {counter[i].n_vector : i \in 1..Len(counter)}

NoDuplicateIndex(counter) ==
    \A i, j \in 1..Len(counter) : i # j => counter[i].n_vector # counter[j].n_vector

RECURSIVE SumFirst(_, _)
SumFirst(t, n) == IF n = 0 THEN 0 ELSE t[n] + SumFirst(t, n - 1)

\* the tuples of S non-negative integers whose sum lies in lo..hi
TuplesWithSum(S, lo, hi) ==
    {t \in [1..S -> 0..hi] : SumFirst(t, S) >= lo /\ SumFirst(t, S) <= hi}

RECURSIVE Binomial(_, _)
Binomial(n, k) ==
    IF k = 0 THEN 1
    ELSE IF n = 0 THEN 0
    ELSE Binomial(n - 1, k - 1) + Binomial(n - 1, k)

\* a is lexicographically smaller than b (same length)
LexLess(a, b) ==
    \E p \in 1..Len(a) : a[p] < b[p] /\ \A q \in 1..(p - 1) : a[q] = b[q]

IsPrefix(a, b) == Len(a) <= Len(b) /\ SubSeq(b, 1, Len(a)) = a

ValidSizes == Len(species) >= 1 /\ n_moments >= 1

ReturnedValid == cg_pc = "returned" /\ ValidSizes

\* C1: for S >= 1 and N >= 1 the raw counter holds exactly the tuples of S
\* non-negative integers with sum <= N, each once: C(N+S, S) entries.
C1_RawCounterComplete ==
    ReturnedValid =>
        /\ IndexSet(k_counter) = TuplesWithSum(Len(species), 0, n_moments)
        /\ NoDuplicateIndex(k_counter)
        /\ Len(k_counter) = Binomial(n_moments + Len(species), Len(species))

C1_Witness ==
    /\ ReturnedValid
    /\ Len(species) = MaxSpecies
    /\ n_moments = MaxOrder
    /\ \E i \in 1..Len(k_counter) : order(k_counter[i]) = MaxOrder

\* the index part of C2: the central counter holds the all-zero index and
\* every tuple with 2 <= sum <= N, each once, in the raw counter's relative
\* order, no order-1 entry, C(N+S, S) - S entries.
CentralIndicesMirrorRaw ==
    /\ IndexSet(n_counter) =
          TuplesWithSum(Len(species), 0, 0)
             \cup TuplesWithSum(Len(species), 2, n_moments)
    /\ NoDuplicateIndex(n_counter)
    /\ Indices(n_counter) = SelectSeq(Indices(k_counter), LAMBDA d : Sum(d) # 1)
    /\ \A i \in 1..Len(n_counter) : order(n_counter[i]) # 1
    /\ Len(n_counter) =
          Binomial(n_moments + Len(species), Len(species)) - Len(species)

\* C2 as stated: ... and every central symbol differs from every raw symbol.
C2_AsStated ==
    ReturnedValid =>
        /\ CentralIndicesMirrorRaw
        /\ \A i \in 1..Len(n_counter), j \in 1..Len(k_counter) :
              n_counter[i].symbol # k_counter[j].symbol

\* name is one of the central symbols yx2, yx3, ...
IsCentralName(name) ==
    \E m \in 2..(Len(n_counter) + 1) : name = "yx" \o ToString(m)

\* C2 (amended): the index part as stated; a central symbol equals a raw
\* symbol only for the two order-0 entries (both labelled 1) or for a species
\* that is itself named like a central symbol; the symbols of the central
\* entries of order >= 2 differ from 1 and from every raw symbol of order >= 2.
C2_CentralCounter ==
    ReturnedValid =>
        /\ CentralIndicesMirrorRaw
        /\ n_counter[1].symbol = k_counter[1].symbol
        /\ \A i \in 1..Len(n_counter), j \in 1..Len(k_counter) :
              n_counter[i].symbol = k_counter[j].symbol =>
                  \/ i = 1 /\ j = 1
                  \/ /\ order(n_counter[i]) >= 2
                     /\ order(k_counter[j]) = 1
                     /\ IsCentralName(species[j - 1])

C2_Witness ==
    /\ ReturnedValid
    /\ Len(species) = MaxSpecies
    /\ n_moments = MaxOrder
    /\ Len(n_counter) > 1
    /\ \E j \in 1..Len(species) : species[j] = n_counter[2].symbol

\* C3: position 0 of the raw counter is the all-zero index labelled 1,
\* positions 1..S are the unit vectors labelled by the species in species
\* order, every later entry has order >= 2, and the order never decreases
\* along the counter.
C3_RawCounterLayout ==
    cg_pc = "returned" =>
        LET S == Len(species) IN
        /\ Len(k_counter) >= S + 1
        /\ k_counter[1] = [n_vector |-> [p \in 1..S |-> 0], symbol |-> "1"]
        /\ \A i \in 1..S :
              k_counter[i + 1] =
                 [n_vector |-> [p \in 1..S |-> IF p = i THEN 1 ELSE 0],
                  symbol   |-> species[i]]
        /\ \A i \in (S + 2)..Len(k_counter) : order(k_counter[i]) >= 2
        /\ \A i \in 1..(Len(k_counter) - 1) :
              order(k_counter[i]) <= order(k_counter[i + 1])

C3_Witness ==
    /\ ReturnedValid
    /\ Len(species) = MaxSpecies
    /\ Len(k_counter) > Len(species) + 1

\* C4 as stated: two raw-counter entries of the same order, whatever the
\* order, stand in lexicographic order of their multi-indices.
C4_AsStated ==
    cg_pc = "returned" =>
        \A i, j \in 1..Len(k_counter) :
            (i < j /\ order(k_counter[i]) = order(k_counter[j])) =>
                LexLess(k_counter[i].n_vector, k_counter[j].n_vector)

\* C4 (amended): entries are sorted by order; two entries of the same order
\* >= 2 stand in lexicographic order; the order-1 entries stand in species
\* order, which is the reverse of the lexicographic order.
C4_TieBreak ==
    cg_pc = "returned" =>
        \A i, j \in 1..Len(k_counter) :
            (i < j /\ order(k_counter[i]) = order(k_counter[j])) =>
                IF order(k_counter[i]) >= 2
                THEN LexLess(k_counter[i].n_vector, k_counter[j].n_vector)
                ELSE /\ order(k_counter[i]) = 1
                     /\ LexLess(k_counter[j].n_vector, k_counter[i].n_vector)

C4_Witness ==
    /\ ReturnedValid
    /\ \E i, j \in 1..Len(k_counter) :
          i < j /\ order(k_counter[i]) = 1 /\ order(k_counter[j]) = 1
    /\ \E i, j \in 1..Len(k_counter) :
          i < j /\ order(k_counter[i]) = MaxOrder /\ order(k_counter[j]) = MaxOrder

\* C5: two calls with the same species and N return the same counters; for
\* the same species and truncation orders N <= N', the counters for
\* N are prefixes (indices and symbols) of the counters for N', and a
\* multi-index present in both calls has the same raw and the same central
\* symbol in both.
C5_PrefixStable ==
    (/\ cg_pc = "returned"
     /\ prev_call.made
     /\ prev_call.species = species
     /\ prev_call.n_moments <= n_moments) =>
        /\ prev_call.n_moments = n_moments =>
              prev_call.k_counter = k_counter /\ prev_call.n_counter = n_counter
        /\ IsPrefix(prev_call.k_counter, k_counter)
        /\ IsPrefix(prev_call.n_counter, n_counter)
        /\ \A i \in 1..Len(prev_call.k_counter), j \in 1..Len(k_counter) :
              prev_call.k_counter[i].n_vector = k_counter[j].n_vector =>
                  prev_call.k_counter[i].symbol = k_counter[j].symbol
        /\ \A i \in 1..Len(prev_call.n_counter), j \in 1..Len(n_counter) :
              prev_call.n_counter[i].n_vector = n_counter[j].n_vector =>
                  prev_call.n_counter[i].symbol = n_counter[j].symbol

C5_Witness ==
    /\ cg_pc = "returned"
    /\ prev_call.made
    /\ prev_call.species = species
    /\ Len(species) = MaxSpecies
    /\ prev_call.n_moments = MaxOrder - 1
    /\ n_moments = MaxOrder
    /\ Len(prev_call.n_counter) > 1
    /\ Len(n_counter) > Len(prev_call.n_counter)

\* C6: with n_moments < 1 or an empty species list the call fails (an
\* InvalidOrder error) and returns no counters.
C6_InvalidSizesRejected ==
    cg_pc = "returned" => ValidSizes


(* ============================ ODEProblem =============================== *)

\* the format string of line 42, character by character
FormatLeftRight ==
    <<"T", "h", "e", "r", "e", " ", "i", "s", " ", "i", "%", " ", "l", "e",
      "f", "t", " ", "h", "a", "n", "d", " ", "s", "i", "d", "e", " ", "e",
      "q", "u", "a", "t", "i", "o", "n", "s", " ", "a", "n", "d", " ", "%",
      "i", " ", "r", "i", "g", "h", "t", " ", "h", "a", "n", "d", " ", "s",
      "i", "d", "e", " ", "o", "n", "e", "s", ".", " ", "T", "h", "e", " ",
      "s", "a", "m", "e", " ", "n", "u", "m", "b", "e", "r", " ", "i", "s",
      " ", "e", "x", "p", "e", "c", "t", "e", "d", ".">>

\* the format string of line 45, character by character
FormatMoments ==
    <<"T", "h", "e", "r", "e", " ", "i", "s", " ", "i", "%", " ", "e", "q",
      "u", "a", "t", "i", "o", "n", "s", " ", "a", "n", "d", " ", "%", "i",
      " ", "h", "a", "n", "d", " ", "s", "i", "d", "e", " ", "a", "n", "d",
      " ", "%", "i", " ", "m", "o", "m", "e", "n", "t", "s", ".", " ", "T",
      "h", "e", " ", "s", "a", "m", "e", " ", "n", "u", "m", "b", "e", "r",
      " ", "i", "s", " ", "e", "x", "p", "e", "c", "t", "e", "d", ".">>

\* python's string formatting (format % args): the characters that may stand
\* between '%' and the conversion character, and the conversion characters
FormatFlags == {"#", "0", "-", " ", "+"}

FormatDigits == {"0", "1", "2", "3", "4", "5", "6", "7", "8", "9"}

FormatLengthModifiers == {"h", "l", "L"}

FormatConversions ==
    {"d", "i", "o", "u", "x", "X", "e", "E", "f", "F", "g", "G", "c", "r", "s"}

RECURSIVE SkipAll(_, _, _)
\* the first position from i on whose character is not in chars
SkipAll(fmt, i, chars) ==
    IF i <= Len(fmt) /\ fmt[i] \in chars THEN SkipAll(fmt, i + 1, chars) ELSE i

\* at most one character of chars is skipped
SkipOne(fmt, i, chars) ==
    IF i <= Len(fmt) /\ fmt[i] \in chars THEN i + 1 ELSE i

\* the position of the conversion character of the specifier whose '%' is at i:
\* flags, then a width, then a precision, then a length modifier come first
ConversionAt(fmt, i) ==
    LET afterFlags == SkipAll(fmt, i + 1, FormatFlags)
        afterWidth == SkipAll(fmt, afterFlags, FormatDigits)
        afterPrec  == IF afterWidth <= Len(fmt) /\ fmt[afterWidth] = "."
                      THEN SkipAll(fmt, afterWidth + 1, FormatDigits)
                      ELSE afterWidth
    IN  SkipOne(fmt, afterPrec, FormatLengthModifiers)

\* the position of the first '%' from i on, Len(fmt) + 1 when there is none
NextPercent(fmt, i) ==
    LET at == {j \in i..Len(fmt) : fmt[j] = "%"}
    IN  IF at = {} THEN Len(fmt) + 1
        ELSE CHOOSE j \in at : \A q \in at : j <= q

RECURSIVE FormatFrom(_, _, _, _, _, _)
\* formatting from position i on, with k arguments used so far: the text up to
\* the next '%' is copied, then the specifier is converted
FormatFrom(fmt, args, i, k, literal, shown) ==
    LET p    == NextPercent(fmt, i)
        text == literal \o SubSeq(fmt, i, p - 1)
    IN  IF p > Len(fmt)
        THEN IF k < Len(args)
             THEN [raised |-> "TypeError",
                   why |-> "not all arguments converted during string formatting"]
             ELSE [raised |-> None, literal |-> text, shown |-> shown]
        ELSE LET c == ConversionAt(fmt, p) IN
             IF c > Len(fmt)
             THEN [raised |-> "ValueError", why |-> "incomplete format"]
             ELSE IF fmt[c] = "%"
             THEN FormatFrom(fmt, args, c + 1, k, Append(text, "%"), shown)
             ELSE IF k >= Len(args)
             THEN [raised |-> "TypeError",
                   why |-> "not enough arguments for format string"]
             ELSE IF fmt[c] \notin FormatConversions
             THEN [raised |-> "ValueError", why |-> "unsupported format character"]
             ELSE FormatFrom(fmt, args, c + 1, k + 1, text,
                             Append(shown, [conversion |-> fmt[c],
                                            spec |-> SubSeq(fmt, p, c),
                                            value |-> args[k + 1]]))

\* format % args
PercentFormat(fmt, args) == FormatFrom(fmt, args, 1, 0, <<>>, <<>>)

\* Matrix.rows of a column matrix, kept as the sequence of its entries
rows(matrix) == Len(matrix)

RECURSIVE MomentDicOfFirst(_, _)
\* the dictionary after the first n rounds of the loop of lines 32-33
MomentDicOfFirst(moments, n) ==
    IF n = 0 THEN << >>
    ELSE (moments[n] :> (n - 1)) @@ MomentDicOfFirst(moments, n - 1)

\* lines 30-34
make_moment_dic(moments) == MomentDicOfFirst(moments, Len(moments))

\* raise ValueError(format % args): the formatting runs first and may itself raise
RaiseValueError(fmt, args) ==
    LET msg == PercentFormat(fmt, args)
    IN  IF msg.raised # None
        THEN [type |-> msg.raised, why |-> msg.why, shown |-> <<>>]
        ELSE [type |-> "ValueError", why |-> "validate", shown |-> msg.shown]

\* lines 41-45 without the check of lines 44-45
ValidateLeftRightOnly(lhs, rhs, dic) ==
    IF rows(lhs) # rows(rhs)
    THEN RaiseValueError(FormatLeftRight, <<rows(lhs), rows(rhs)>>)
    ELSE NoException

\* lines 41-45 with the comparison of line 41 written as <
ValidateLeftShorter(lhs, rhs, dic) ==
    IF rows(lhs) < rows(rhs)
    THEN RaiseValueError(FormatLeftRight, <<rows(lhs), rows(rhs)>>)
    ELSE IF rows(lhs) # Cardinality(DOMAIN dic)
    THEN RaiseValueError(FormatMoments, <<rows(lhs), Cardinality(DOMAIN dic)>>)
    ELSE NoException

\* the message of line 45: format string % (rows, len(moment_dic))
MomentsMessage(lhs, dic) ==
    RaiseValueError(FormatMoments, <<rows(lhs), Cardinality(DOMAIN dic)>>)

\* lines 37-45: the exception validate() raises, if any
validate(lhs, rhs, dic) ==
    IF rows(lhs) # rows(rhs)
    THEN RaiseValueError(FormatLeftRight, <<rows(lhs), rows(rhs)>>)
    ELSE IF rows(lhs) # Cardinality(DOMAIN dic)
    THEN MomentsMessage(lhs, dic)
    ELSE NoException

\* lines 15-28: the fields assigned and the exception validate() raised, if any
ODEProblem_init(lhs, rhs, consts, moments) ==
    LET dic == make_moment_dic(moments)
    IN  [left_hand_side  |-> lhs,
         right_hand_side |-> rhs,
         constants       |-> SubSeq(consts, 1, Len(consts)),
         moment_dic      |-> dic,
         raised          |-> validate(lhs, rhs, dic)]

(* the arguments of the constructor calls *)

\* a column matrix of n symbols
ColumnMatrix(n, name) == [i \in 1..n |-> name \o ToString(i - 1)]

\* the moments of a one-species problem, as tuples
MomentTuples == {<<0>>, <<1>>, <<2>>}

MomentLists == UNION {[1..n -> MomentTuples] : n \in 0..MaxRows}

ConstantLists == {<<>>, <<"c_0">>}

InitODE ==
    /\ ode_pc = "new"
    /\ ode_args \in [left_hand_side  : {ColumnMatrix(n, "y_") : n \in 0..MaxRows},
                     right_hand_side : {ColumnMatrix(n, "rhs_") : n \in 0..MaxRows},
                     constants       : ConstantLists,
                     moments         : MomentLists]
    /\ left_hand_side = None
    /\ right_hand_side = None
    /\ constants = None
    /\ moment_dic = None
    /\ ode_raised = NoException
    /\ at_construction = None
    /\ caller_op = None
    /\ n_caller_ops = 0
    /\ IdleCounters
    /\ IdleMEA
    /\ IdleMixedMoments
    /\ IdleSubstitute
    /\ IdleParse

\* ODEProblem(left_hand_side, right_hand_side, constants, moments): the fields
\* are assigned (lines 23-26), then validate() runs (line 28)
ODEProblemConstruct ==
    /\ ode_pc = "new"
    /\ LET r == ODEProblem_init(ode_args.left_hand_side, ode_args.right_hand_side,
                                ode_args.constants, ode_args.moments)
       IN  /\ left_hand_side' = r.left_hand_side
           /\ right_hand_side' = r.right_hand_side
           /\ constants' = r.constants
           /\ moment_dic' = r.moment_dic
           /\ ode_raised' = r.raised
           /\ ode_pc' = IF r.raised = NoException THEN "constructed" ELSE "raised"
           /\ at_construction' =
                 IF r.raised = NoException
                 THEN [left_hand_side  |-> r.left_hand_side,
                       right_hand_side |-> r.right_hand_side,
                       constants       |-> r.constants,
                       moment_dic      |-> r.moment_dic]
                 ELSE None
    /\ UNCHANGED <<ode_args, caller_op, n_caller_ops, cg_vars, mea_vars,
                 mm_vars, sub_vars, pm_vars>>

NextODE == ODEProblemConstruct

SpecODE == InitODE /\ [][NextODE]_vars

(* -------- a caller's operations on a constructed ODEProblem ------------ *)

\* the value a caller writes
CallerSymbol == "z"

\* the sequence without its i-th entry
RemoveAt(seq, i) == SubSeq(seq, 1, i - 1) \o SubSeq(seq, i + 1, Len(seq))

\* the results of one in-place operation on a sympy Matrix (mutable):
\* m[i] = v, m.row_del(i)
MatrixInPlace(m, v) ==
    {[m EXCEPT ![i] = v] : i \in 1..Len(m)} \cup {RemoveAt(m, i) : i \in 1..Len(m)}

\* the results of one in-place operation on a python list:
\* l[i] = v, del l[i], l.append(v)
ListInPlace(l, v) ==
    {[l EXCEPT ![i] = v] : i \in 1..Len(l)}
        \cup {RemoveAt(l, i) : i \in 1..Len(l)}
        \cup (IF Len(l) < MaxRows THEN {Append(l, v)} ELSE {})

\* the results of one in-place operation on a python dict: d[k] = 0, del d[k]
DictInPlace(d, keys) ==
    {(k :> 0) @@ d : k \in keys}
        \cup {[q \in (DOMAIN d) \ {k} |-> d[q]] : k \in DOMAIN d}

\* a caller holds a constructed problem and may still operate on it
CallerMayAct == ode_pc = "constructed" /\ n_caller_ops < MaxCallerOps

\* problem.<name> = value: the properties of lines 49-63 have no setter
AssignAttribute ==
    /\ CallerMayAct
    /\ \E name \in {"left_hand_side", "right_hand_side", "constants", "moment_dic"} :
          caller_op' = [op |-> "assign", target |-> name, raised |-> "AttributeError"]
    /\ n_caller_ops' = n_caller_ops + 1
    /\ UNCHANGED <<ode_pc, ode_args, left_hand_side, right_hand_side, constants,
                   moment_dic, ode_raised, at_construction, cg_vars, mea_vars,
                 mm_vars, sub_vars, pm_vars>>

\* the caller changes, in place, the matrix it passed as left_hand_side, or
\* the object the getter returns: line 23 stores and line 51 returns that
\* same object
MutateLeftHandSide ==
    /\ CallerMayAct
    /\ \E via \in {"argument", "getter"},
          m \in MatrixInPlace(left_hand_side, CallerSymbol) :
          /\ left_hand_side' = m
          /\ ode_args' = [ode_args EXCEPT !.left_hand_side = m]
          /\ caller_op' = [op |-> "mutate", target |-> "left_hand_side",
                           via |-> via, raised |-> None]
    /\ n_caller_ops' = n_caller_ops + 1
    /\ UNCHANGED <<ode_pc, right_hand_side, constants, moment_dic, ode_raised,
                   at_construction, cg_vars, mea_vars,
                 mm_vars, sub_vars, pm_vars>>

\* the same for right_hand_side (lines 24 and 55)
MutateRightHandSide ==
    /\ CallerMayAct
    /\ \E via \in {"argument", "getter"},
          m \in MatrixInPlace(right_hand_side, CallerSymbol) :
          /\ right_hand_side' = m
          /\ ode_args' = [ode_args EXCEPT !.right_hand_side = m]
          /\ caller_op' = [op |-> "mutate", target |-> "right_hand_side",
                           via |-> via, raised |-> None]
    /\ n_caller_ops' = n_caller_ops + 1
    /\ UNCHANGED <<ode_pc, left_hand_side, constants, moment_dic, ode_raised,
                   at_construction, cg_vars, mea_vars,
                 mm_vars, sub_vars, pm_vars>>

\* the caller changes the constants it passed: line 25 stored a copy
MutateConstantsArgument ==
    /\ CallerMayAct
    /\ \E l \in ListInPlace(ode_args.constants, CallerSymbol) :
          ode_args' = [ode_args EXCEPT !.constants = l]
    /\ caller_op' = [op |-> "mutate", target |-> "constants",
                     via |-> "argument", raised |-> None]
    /\ n_caller_ops' = n_caller_ops + 1
    /\ UNCHANGED <<ode_pc, left_hand_side, right_hand_side, constants, moment_dic,
                   ode_raised, at_construction, cg_vars, mea_vars,
                 mm_vars, sub_vars, pm_vars>>

\* the caller changes the list the constants getter returns (line 59): it is
\* the list the problem holds
MutateConstantsReturned ==
    /\ CallerMayAct
    /\ constants' \in ListInPlace(constants, CallerSymbol)
    /\ caller_op' = [op |-> "mutate", target |-> "constants",
                     via |-> "getter", raised |-> None]
    /\ n_caller_ops' = n_caller_ops + 1
    /\ UNCHANGED <<ode_pc, ode_args, left_hand_side, right_hand_side, moment_dic,
                   ode_raised, at_construction, cg_vars, mea_vars,
                 mm_vars, sub_vars, pm_vars>>

\* the caller changes the moments list it passed: make_moment_dic (line 26)
\* built a new dictionary from it
MutateMomentsArgument ==
    /\ CallerMayAct
    /\ \E l \in UNION {ListInPlace(ode_args.moments, t) : t \in MomentTuples} :
          ode_args' = [ode_args EXCEPT !.moments = l]
    /\ caller_op' = [op |-> "mutate", target |-> "moment_dic",
                     via |-> "argument", raised |-> None]
    /\ n_caller_ops' = n_caller_ops + 1
    /\ UNCHANGED <<ode_pc, left_hand_side, right_hand_side, constants, moment_dic,
                   ode_raised, at_construction, cg_vars, mea_vars,
                 mm_vars, sub_vars, pm_vars>>

\* the caller changes the dictionary the moment_dic getter returns (line 63):
\* it is the dictionary the problem holds
MutateMomentDicReturned ==
    /\ CallerMayAct
    /\ moment_dic' \in DictInPlace(moment_dic, MomentTuples)
    /\ caller_op' = [op |-> "mutate", target |-> "moment_dic",
                     via |-> "getter", raised |-> None]
    /\ n_caller_ops' = n_caller_ops + 1
    /\ UNCHANGED <<ode_pc, ode_args, left_hand_side, right_hand_side, constants,
                   ode_raised, at_construction, cg_vars, mea_vars,
                 mm_vars, sub_vars, pm_vars>>

NextODEUse ==
    \/ ODEProblemConstruct
    \/ AssignAttribute
    \/ MutateLeftHandSide
    \/ MutateRightHandSide
    \/ MutateConstantsArgument
    \/ MutateConstantsReturned
    \/ MutateMomentsArgument
    \/ MutateMomentDicReturned

\* the constructor, then the caller's operations on the problem
SpecODEUse == InitODE /\ [][NextODEUse]_vars

(* --------------------- properties of ODEProblem ------------------------ *)

\* the constructor call has ended, by returning or by raising
ODEEnded == ode_pc \in {"constructed", "raised"}

\* the number of distinct moments handed to the constructor
DistinctMoments ==
    Cardinality({ode_args.moments[i] : i \in 1..Len(ode_args.moments)})

ArgsSameLength == Len(ode_args.left_hand_side) = Len(ode_args.right_hand_side)

\* C8: an ODEProblem whose constructor returns normally has
\* rows(left_hand_side) = rows(right_hand_side) = number of entries of
\* moment_dic; for every other combination of inputs the constructor raises.
C8_ConstructedInvariant ==
    /\ ode_pc = "constructed" =>
          /\ rows(left_hand_side) = rows(right_hand_side)
          /\ rows(left_hand_side) = Cardinality(DOMAIN moment_dic)
          /\ left_hand_side = ode_args.left_hand_side
          /\ right_hand_side = ode_args.right_hand_side
          /\ DOMAIN moment_dic =
                {ode_args.moments[i] : i \in 1..Len(ode_args.moments)}
    /\ (ODEEnded /\ ~(ArgsSameLength
                      /\ Len(ode_args.left_hand_side) = DistinctMoments)) =>
          /\ ode_pc = "raised"
          /\ ode_raised.type # None

C8_Witness ==
    /\ ode_pc = "constructed"
    /\ rows(left_hand_side) >= 2
    /\ Len(ode_args.moments) > rows(left_hand_side)

\* C9 as stated: a pair of unequal length is rejected with a validation error
\* and every equal-length, non-empty pair is accepted.
C9_AsStated ==
    ODEEnded =>
        /\ ~ArgsSameLength =>
              ode_pc = "raised" /\ ode_raised.type = "ValueError"
        /\ (ArgsSameLength /\ Len(ode_args.left_hand_side) >= 1) =>
              ode_pc = "constructed"

\* C9 (amended): a pair of unequal length is rejected with a ValueError; an
\* equal-length, non-empty pair is accepted exactly when the moment mapping
\* has as many entries as the pair has rows, and rejected otherwise.
C9_LengthCheck ==
    ODEEnded =>
        /\ ~ArgsSameLength =>
              ode_pc = "raised" /\ ode_raised.type = "ValueError"
        /\ (ArgsSameLength /\ Len(ode_args.left_hand_side) >= 1) =>
              (ode_pc = "constructed"
                  <=> DistinctMoments = Len(ode_args.left_hand_side))

C9_Witness ==
    /\ ode_pc = "raised"
    /\ ArgsSameLength
    /\ Len(ode_args.left_hand_side) >= 2
    /\ DistinctMoments = Len(ode_args.left_hand_side) - 1

\* C10: with LHS and RHS of the same length and a moment mapping of another
\* size, the constructor raises the validation error (ValueError, as for an
\* LHS/RHS mismatch) with a message that shows the two mismatched counts.
C10_MomentMismatchValueError ==
    (ODEEnded /\ ArgsSameLength
        /\ DistinctMoments # Len(ode_args.left_hand_side)) =>
        /\ ode_pc = "raised"
        /\ ode_raised.type = "ValueError"
        /\ \E a, b \in 1..Len(ode_raised.shown) :
              /\ ode_raised.shown[a].value = Len(ode_args.left_hand_side)
              /\ ode_raised.shown[b].value = DistinctMoments

\* C11: an ODEProblem is immutable: whatever the caller does after the
\* construction, the four getters keep returning the contents of the
\* construction and |LHS| = |RHS| = |moment mapping| keeps holding.
C11_Immutable ==
    ode_pc = "constructed" =>
        /\ left_hand_side = at_construction.left_hand_side
        /\ right_hand_side = at_construction.right_hand_side
        /\ constants = at_construction.constants
        /\ moment_dic = at_construction.moment_dic
        /\ rows(left_hand_side) = rows(right_hand_side)
        /\ rows(left_hand_side) = Cardinality(DOMAIN moment_dic)

(* =================== MomentExpansionApproximation ====================== *)

\* line 24: the dictionary option -> closer class
supported_closers ==
    ("log-normal" :> "LogNormalCloser") @@ ("zero" :> "ZeroCloser")
        @@ ("normal" :> "NormalCloser")

\* lines 18-34 with an unknown closer falling back to the default, 'zero'
MEA_init_default_closer(model, n, closer) ==
    [raised |-> NoException,
     self   |-> [model     |-> model,
                 n_moments |-> n,
                 closer    |-> [class |-> IF closer \in DOMAIN supported_closers
                                          THEN supported_closers[closer]
                                          ELSE supported_closers["zero"],
                                n_moments |-> n]]]

\* lines 18-34: the fields assigned and the exception raised, if any
MEA_init(model, n, closer) ==
    IF ~(closer \in DOMAIN supported_closers)
    THEN [raised |-> [type |-> "KeyError", closer |-> closer],
          self   |-> [model |-> model, n_moments |-> n, closer |-> None]]
    ELSE [raised |-> NoException,
          self   |-> [model     |-> model,
                      n_moments |-> n,
                      closer    |-> [class |-> supported_closers[closer],
                                     n_moments |-> n]]]

\* the statements of run(), lines 47-59, by the function each calls
RunStages ==
    <<"generate_n_and_k_counters", "generate_dmu_over_dt", "eq_centralmoments",
      "raw_to_central", "substitute_raw_with_central", "close", "ODEProblem">>

\* the closer names a caller passes
ClosureNames == {"zero", "normal", "log-normal", "gamma", "Zero"}

InitMEA ==
    /\ mea_pc = "new"
    /\ mea_args \in [model     : [species : SpeciesLists],
                     n_moments : Orders,
                     closer    : ClosureNames]
    /\ mea_self = None
    /\ mea_raised = NoException
    /\ stages_done = <<>>
    /\ IdleCounters
    /\ IdleODE
    /\ IdleMixedMoments
    /\ IdleSubstitute
    /\ IdleParse

\* MomentExpansionApproximation(model, n_moments, closer)
MEAConstruct ==
    /\ mea_pc = "new"
    /\ LET r == MEA_init(mea_args.model, mea_args.n_moments, mea_args.closer)
       IN  /\ mea_self' = r.self
           /\ mea_raised' = r.raised
           /\ mea_pc' = IF r.raised = NoException THEN "constructed" ELSE "raised"
    /\ UNCHANGED <<mea_args, stages_done, cg_vars, ode_vars,
                 mm_vars, sub_vars, pm_vars>>

\* run(), lines 42-47: the locals are read from self and the counters generated
RunGenerateCounters ==
    /\ mea_pc = "constructed"
    /\ n_moments' = mea_self.n_moments
    /\ species' = mea_self.model.species
    /\ LET r == generate_n_and_k_counters(mea_self.n_moments, mea_self.model.species)
       IN  /\ n_counter' = r.n_counter
           /\ k_counter' = r.k_counter
    /\ stages_done' = <<RunStages[1]>>
    /\ mea_pc' = "running"
    /\ UNCHANGED <<cg_pc, prev_call, mea_args, mea_self, mea_raised, ode_vars,
                 mm_vars, sub_vars, pm_vars>>

\* run(), lines 49-60: the next statement; after the last one run() returns
RunNextStage ==
    /\ mea_pc = "running"
    /\ Len(stages_done) < Len(RunStages)
    /\ stages_done' = Append(stages_done, RunStages[Len(stages_done) + 1])
    /\ mea_pc' = IF Len(stages_done) + 1 = Len(RunStages) THEN "done" ELSE "running"
    /\ UNCHANGED <<cg_vars, mea_args, mea_self, mea_raised, ode_vars,
                 mm_vars, sub_vars, pm_vars>>

NextMEA == MEAConstruct \/ RunGenerateCounters \/ RunNextStage

SpecMEA == InitMEA /\ [][NextMEA]_vars

\* C7: a closer name outside {"zero", "normal", "log-normal"} makes the
\* construction fail (KeyError): no approximation object results and no
\* stage of run() is executed.
C7_UnsupportedClosureFatal ==
    (mea_pc # "new" /\ mea_args.closer \notin {"zero", "normal", "log-normal"}) =>
        /\ mea_pc = "raised"
        /\ mea_raised.type = "KeyError"
        /\ stages_done = <<>>
        /\ n_counter = <<>> /\ k_counter = <<>>

C7_Witness ==
    /\ mea_pc = "raised"
    /\ mea_args.closer = "gamma"
    /\ Len(mea_args.model.species) >= 1
    /\ mea_args.n_moments >= 1

(* =========================== eq_mixedmoments =========================== *)

\* largest number of reactions (propensities) of a model
MaxReactions == 2

\* largest truncation order of a run in which eq_mixedmoments is called
MaxMixedOrder == 2

\* the symbols expressions are built from: the species, then the rate
\* constants (sample_models.py names them y_i and c_i)
ExprSymbols == <<"y_0", "y_1", "c_0", "c_1", "c_2">>

SymbolIndex(s) == CHOOSE i \in 1..Len(ExprSymbols) : ExprSymbols[i] = s

\* A sympy expression is modelled in expanded form: a polynomial in ExprSymbols
\* with integer coefficients, written as a function from monomials (one
\* exponent per symbol) to their non-zero coefficients.  Two expressions are
\* equal exactly when they are the same polynomial.
ZeroExpr == [m \in {} |-> 0]

\* the expression with these terms, every coefficient worked out once
Expr(terms) == terms @@ ZeroExpr

UnitMonomial == [i \in 1..Len(ExprSymbols) |-> 0]

\* sympy.Integer(k) as an expression
Number(k) == IF k = 0 THEN ZeroExpr ELSE Expr([m \in {UnitMonomial} |-> k])

\* sympy.Symbol(s)
Symbol(s) ==
    Expr([m \in {[i \in 1..Len(ExprSymbols) |-> IF i = SymbolIndex(s) THEN 1 ELSE 0]}
             |-> 1])

Coeff(p, m) == IF m \in DOMAIN p THEN p[m] ELSE 0

\* p + q
ExprAdd(p, q) ==
    Expr([m \in {x \in (DOMAIN p) \cup (DOMAIN q) : Coeff(p, x) + Coeff(q, x) # 0} |->
             Coeff(p, m) + Coeff(q, m)])

MonomialTimes(a, b) == [i \in 1..Len(a) |-> a[i] + b[i]]

RECURSIVE SumOfProducts(_, _, _)
SumOfProducts(pairs, p, q) ==
    IF pairs = {} THEN 0
    ELSE LET x == CHOOSE x \in pairs : TRUE
         IN  p[x[1]] * q[x[2]] + SumOfProducts(pairs \ {x}, p, q)

\* p * q
ExprMul(p, q) ==
    LET pairs(m) == {x \in (DOMAIN p) \X (DOMAIN q) : MonomialTimes(x[1], x[2]) = m}
        D        == {MonomialTimes(a, b) : a \in DOMAIN p, b \in DOMAIN q}
        c(m)     == SumOfProducts(pairs(m), p, q)
    IN  Expr([m \in {x \in D : c(x) # 0} |-> c(m)])

\* p * k for an integer k
ExprScale(p, k) == IF k = 0 THEN ZeroExpr ELSE Expr([m \in DOMAIN p |-> p[m] * k])

RECURSIVE ExprPow(_, _)
\* p ** n for an exponent n >= 0
ExprPow(p, n) == IF n = 0 THEN Number(1) ELSE ExprMul(ExprPow(p, n - 1), p)

\* b ** e of sympy Integers with 0 ** 0 read as 0
IntPowZeroZero(b, e) == IF b = 0 THEN 0 ELSE b ^ e

\* b ** e of sympy Integers, e >= 0: 0 ** 0 is 1
IntPow(b, e) == IF e = 0 THEN 1 ELSE IF b = 0 THEN 0 ELSE b ^ e

RECURSIVE Factorial(_)
\* sympy.factorial(n), n >= 0
Factorial(n) == IF n = 0 THEN 1 ELSE n * Factorial(n - 1)

RECURSIVE ReduceMul(_)
\* reduce(operator.mul, xs) on expressions, xs not empty
ReduceMul(xs) ==
    IF Len(xs) = 1 THEN xs[1]
    ELSE ExprMul(ReduceMul(SubSeq(xs, 1, Len(xs) - 1)), xs[Len(xs)])

RECURSIVE ReduceIntMul(_)
\* reduce(operator.mul, xs) on integers, xs not empty
ReduceIntMul(xs) ==
    IF Len(xs) = 1 THEN xs[1]
    ELSE ReduceIntMul(SubSeq(xs, 1, Len(xs) - 1)) * xs[Len(xs)]

RECURSIVE ReduceAdd(_)
\* reduce(operator.add, xs) on expressions, xs not empty
ReduceAdd(xs) ==
    IF Len(xs) = 1 THEN xs[1]
    ELSE ExprAdd(ReduceAdd(SubSeq(xs, 1, Len(xs) - 1)), xs[Len(xs)])

\* itertools.product(a, b): the pairs, the first component changing slowest
ProductOf(a, b) ==
    List([idx \in 1..(Len(a) * Len(b)) |->
        <<a[((idx - 1) \div Len(b)) + 1], b[((idx - 1) % Len(b)) + 1]>>])

\* a variant of Repeat: every element n times in a row
RepeatEach(xs, n) ==
    List([idx \in 1..(Len(xs) * n) |-> xs[((idx - 1) \div n) + 1]])

\* xs * n: the list n times over
Repeat(xs, n) ==
    List([idx \in 1..(Len(xs) * n) |-> xs[((idx - 1) % Len(xs)) + 1]])

\* d(p)/d(symbol number i)
Diff(p, i) ==
    LET lower(m)  == [j \in 1..Len(m) |-> IF j = i THEN m[j] - 1 ELSE m[j]]
        higher(m) == [j \in 1..Len(m) |-> IF j = i THEN m[j] + 1 ELSE m[j]]
    IN  Expr([m \in {lower(x) : x \in {y \in DOMAIN p : y[i] >= 1}} |->
                 p[higher(m)] * (m[i] + 1)])

RECURSIVE DiffTimes(_, _, _)
\* p differentiated n times by symbol number i
DiffTimes(p, i, n) == IF n = 0 THEN p ELSE DiffTimes(Diff(p, i), i, n - 1)

RECURSIVE DeriveUpTo(_, _, _, _)
DeriveUpTo(expr, variables, n_vector, j) ==
    IF j = 0 THEN expr
    ELSE DiffTimes(DeriveUpTo(expr, variables, n_vector, j - 1),
                   SymbolIndex(variables[j]), n_vector[j])

\* TaylorExpansion.derive_expr_from_counter_entry: the mixed partial derivative
\* of expr, counter_entry[j] times by variables[j]
derive_expr_from_counter_entry(expr, variables, counter_entry) ==
    DeriveUpTo(expr, variables, counter_entry.n_vector, Len(variables))

\* TaylorExpansion.get_factorial_term: 1 / (c_1! * ... * c_n!), kept as a fraction
get_factorial_term(counter_entry) ==
    [num |-> 1,
     den |-> ReduceIntMul([j \in 1..Len(counter_entry.n_vector) |->
                              Factorial(counter_entry.n_vector[j])])]

\* d * f of line 45 for a fraction f.  The coefficients of a derivative taken
\* c_j times by each variable are multiples of c_1! * ... * c_n!, so the
\* division leaves no remainder.
ExprTimesFraction(d, f) == Expr([m \in DOMAIN d |-> (d[m] * f.num) \div f.den])

\* lines 16-26: F = a(X) * product of x_i ** (k_i - e_i)
make_f_of_x(variables, k_vec, e_vec, reaction) ==
    LET all_xs == List([i \in 1..Len(variables) |->
                      ExprPow(Symbol(variables[i]), k_vec[i] - e_vec.n_vector[i])])
        product == ReduceMul(all_xs)
    IN  ExprMul(product, reaction)

\* lines 28-48: the column of Taylor terms of expr, one per counter entry
make_f_expectation(variables, expr, counter) ==
    LET derives == List([i \in 1..Len(counter) |->
                       derive_expr_from_counter_entry(expr, variables, counter[i])])
        factorial_terms == List([i \in 1..Len(counter) |->
                                    get_factorial_term(counter[i])])
    IN  List([i \in 1..Len(counter) |->
                 ExprTimesFraction(derives[i], factorial_terms[i])])

\* lines 51-55: the product of the binomials (k_i choose e_i)
make_k_chose_e(e_vec, k_vec) ==
    LET factorials == [i \in 1..Len(k_vec) |->
            Factorial(k_vec[i]) \div
                (Factorial(e_vec.n_vector[i]) * Factorial(k_vec[i] - e_vec.n_vector[i]))]
    IN  ReduceIntMul(factorials)

\* lines 57-60 with the entries added up
make_s_pow_e_added(S, reac_idx, e_vec) ==
    LET vec == [i \in 1..Len(e_vec.n_vector) |->
                   IntPow(S[i][reac_idx + 1], e_vec.n_vector[i])]
    IN  Sum(vec)

\* lines 57-60: the product of S[i, reac_idx] ** e_i
make_s_pow_e(S, reac_idx, e_vec) ==
    LET vec == [i \in 1..Len(e_vec.n_vector) |->
                   IntPow(S[i][reac_idx + 1], e_vec.n_vector[i])]
    IN  ReduceIntMul(vec)

\* S.cols
Cols(S) == Len(S[1])

\* the statements of lines 66-83, in order
MixedStatements ==
    <<"f_of_x_vec", "f_expectation_vec", "s_pow_e_vec", "k_choose_e_vec",
      "product", "to_sum", "summed", "mixed_moments">>

\* lines 63-83: the statements executed, and the row returned or the exception
eq_mixedmoments(amat, counter, S, ymat, kvec, ekcounter) ==
    LET pairs == ProductOf(amat, ekcounter)
        f_of_x_vec == List([p \in 1..Len(pairs) |->
                          make_f_of_x(ymat, kvec, pairs[p][2], pairs[p][1])])
        f_expectation_vec == List([p \in 1..Len(pairs) |->
                                 make_f_expectation(ymat, f_of_x_vec[p], counter)])
        idx_pairs == ProductOf(Range(Len(amat)), ekcounter)
        s_pow_e_vec == List([p \in 1..Len(idx_pairs) |->
                           make_s_pow_e(S, idx_pairs[p][1], idx_pairs[p][2])])
        k_choose_e_vec == Repeat(List([e \in 1..Len(ekcounter) |->
                                     make_k_chose_e(ekcounter[e], kvec)]), Len(amat))
        \* zip(...) of three lists of the same length; f * s * ke scales
        \* every entry of the column f
        product == List([p \in 1..Len(pairs) |->
                       List([i \in 1..Len(counter) |->
                           ExprScale(ExprScale(f_expectation_vec[p][i], s_pow_e_vec[p]),
                                     k_choose_e_vec[p])])])
        \* column i of to_sum holds entry i of every element of product
        summed == List([i \in 1..Len(counter) |->
                      ReduceAdd(List([p \in 1..Len(product) |-> product[p][i]]))])
    IN  IF \E p \in 1..Len(idx_pairs) : idx_pairs[p][1] >= Cols(S)
        THEN [computed |-> SubSeq(MixedStatements, 1, 2), result |-> None,
              raised |-> [type |-> "IndexError", why |-> "S[i, reac_idx]"]]
        ELSE IF Len(pairs) = 0
        THEN [computed |-> SubSeq(MixedStatements, 1, 5), result |-> None,
              raised |-> [type |-> "IndexError", why |-> "product[0]"]]
        ELSE [computed |-> MixedStatements, result |-> summed, raised |-> NoException]

\* the species of the models eq_mixedmoments is called for
MixedSpecies == {<<"y_0">>, <<"y_0", "y_1">>}

\* the propensities of a model with these species, as many as it has reactions
\* (y_n is the last species):  c_0*y_0*y_n,  c_1*y_0*(y_0 - 1),  c_2*y_n,  c_2
Propensities(ymat, R) ==
    LET y0 == Symbol(ymat[1])
        yn == Symbol(ymat[Len(ymat)])
        all == << ExprMul(Symbol("c_0"), ExprMul(y0, yn)),
                  ExprMul(Symbol("c_1"), ExprMul(y0, ExprAdd(y0, Number(0 - 1)))),
                  ExprMul(Symbol("c_2"), yn),
                  Symbol("c_2") >>
    IN  SubSeq(all, 1, R)

\* the net changes one reaction makes to the species
StoichColumns(ymat) ==
    IF Len(ymat) = 1 THEN {<<0 - 1>>, <<0>>, <<2>>}
    ELSE {<<0 - 1, 0>>, <<0, 2>>, <<1, 0 - 1>>}

\* the matrix with these columns: S[i][r] is the change of species i in
\* reaction r
StoichiometryMatrix(ymat, cols) ==
    [i \in 1..Len(ymat) |-> [r \in 1..Len(cols) |-> cols[r][i]]]

\* the stoichiometry matrices passed with R propensities: one column per
\* reaction, or the last column missing, or one column too many
Stoichiometries(ymat, R) ==
    UNION { {StoichiometryMatrix(ymat, cols),
             StoichiometryMatrix(ymat, Append(cols, cols[1]))}
            \cup (IF R > 1 THEN {StoichiometryMatrix(ymat, SubSeq(cols, 1, R - 1))}
                            ELSE {}) :
            cols \in [1..R -> StoichColumns(ymat)] }

\* e is bounded by k in every component
Bounded(e, k) == \A i \in 1..Len(k) : e[i] <= k[i]

\* the e-vector lists passed with kvec: every entry of the raw counter bounded
\* by kvec, those of them that are not zero, or a single one of them
EVectorLists(counter, kvec) ==
    LET below == SelectSeq(counter, LAMBDA m : Bounded(m.n_vector, kvec))
    IN  ({below, SelectSeq(below, LAMBDA m : order(m) > 0)}
            \cup {<<below[i]>> : i \in 1..Len(below)}) \ {<<>>}

InitMixedMoments ==
    /\ mm_pc = "called"
    /\ \E ymat \in MixedSpecies, R \in 1..MaxReactions :
         LET counters == generate_n_and_k_counters(MaxMixedOrder, ymat)
         IN  \E k \in 1..Len(counters.k_counter) :
               \E E \in EVectorLists(counters.k_counter, counters.k_counter[k].n_vector),
                  S \in Stoichiometries(ymat, R) :
                 mm_args = [amat      |-> Propensities(ymat, R),
                            counter   |-> counters.n_counter,
                            S         |-> S,
                            ymat      |-> ymat,
                            kvec      |-> counters.k_counter[k].n_vector,
                            ekcounter |-> E]
    /\ mm_computed = <<>>
    /\ mm_result = None
    /\ mm_raised = NoException
    /\ IdleCounters
    /\ IdleMEA
    /\ IdleODE
    /\ IdleSubstitute
    /\ IdleParse

\* eq_mixedmoments(amat, counter, S, ymat, kvec, ekcounter)
EqMixedMoments ==
    /\ mm_pc = "called"
    /\ LET r == eq_mixedmoments(mm_args.amat, mm_args.counter, mm_args.S,
                                mm_args.ymat, mm_args.kvec, mm_args.ekcounter)
       IN  /\ mm_computed' = r.computed
           /\ mm_result' = r.result
           /\ mm_raised' = r.raised
           /\ mm_pc' = IF r.raised = NoException THEN "returned" ELSE "raised"
    /\ UNCHANGED <<mm_args, cg_vars, mea_vars, ode_vars, sub_vars, pm_vars>>

NextMixedMoments == EqMixedMoments

SpecMixedMoments == InitMixedMoments /\ [][NextMixedMoments]_vars

(* ---------------------- properties: eq_mixedmoments -------------------- *)

MixedEnded == mm_pc \in {"returned", "raised"}

\* C12: when the number of propensities differs from the number of
\* stoichiometry columns, eq_mixedmoments fails (ShapeMismatch) before any f(x)
\* term or Taylor term is computed, and returns no result.
C12_ShapeValidated ==
    (MixedEnded /\ Len(mm_args.amat) # Cols(mm_args.S)) =>
        (mm_pc = "raised" /\ mm_computed = <<>>)

\* every reaction has a column of the stoichiometry matrix
EveryReactionHasColumn == Cols(mm_args.S) >= Len(mm_args.amat)

RECURSIVE Power(_, _)
\* b to the e, with 0 to the 0 equal to 1
Power(b, e) == IF e = 0 THEN 1 ELSE b * Power(b, e - 1)

RECURSIVE StoichPowerUpTo(_, _, _, _)
StoichPowerUpTo(S, r, e, i) ==
    IF i = 0 THEN 1 ELSE StoichPowerUpTo(S, r, e, i - 1) * Power(S[i][r], e[i])

\* s_r^e: the product over the species i of S[i, r] to the e_i
StoichPower(S, r, e) == StoichPowerUpTo(S, r, e, Len(e))

RECURSIVE BinomialsUpTo(_, _, _)
BinomialsUpTo(k, e, i) ==
    IF i = 0 THEN 1 ELSE BinomialsUpTo(k, e, i - 1) * Binomial(k[i], e[i])

\* C(k, e): the product over the species i of (k_i choose e_i)
BinomialProduct(k, e) == BinomialsUpTo(k, e, Len(k))

\* the exponents of the species in the monomial m
SpeciesExponents(m, variables) ==
    [j \in 1..Len(variables) |-> m[SymbolIndex(variables[j])]]

\* the monomial m with d[j] added to the exponent of variables[j]
Shifted(m, variables, d) ==
    [i \in 1..Len(m) |->
        IF \E j \in 1..Len(variables) : SymbolIndex(variables[j]) = i
        THEN m[i] + d[CHOOSE j \in 1..Len(variables) : SymbolIndex(variables[j]) = i]
        ELSE m[i]]

\* f_{r,e} = a * x^(k - e)
TimesPowers(a, variables, k, e) ==
    LET d == [j \in 1..Len(k) |-> k[j] - e[j]]
    IN  [x \in {Shifted(m, variables, d) : m \in DOMAIN a} |->
            a[CHOOSE m \in DOMAIN a : Shifted(m, variables, d) = x]]

\* T_c(f): the mixed partial derivative of f by c, over the factorials of c.
\* The term q * x^m of f gives q * C(m, c) * x^(m - c).
TaylorCoefficient(f, variables, c) ==
    LET w(m)  == BinomialProduct(SpeciesExponents(m, variables), c)
        d     == [j \in 1..Len(c) |-> 0 - c[j]]
        keep  == {m \in DOMAIN f : w(m) # 0}
    IN  [x \in {Shifted(m, variables, d) : m \in keep} |->
            LET m == CHOOSE m \in keep : Shifted(m, variables, d) = x
            IN  f[m] * w(m)]

RECURSIVE SumOfExprs(_)
SumOfExprs(xs) ==
    IF xs = <<>> THEN ZeroExpr ELSE ExprAdd(Head(xs), SumOfExprs(Tail(xs)))

\* the sum over every pair (reaction r, e-vector e of the list) of
\*   s_r^e * C(k, e) * T_c(f_{r,e})
MixedMomentSum(c) ==
    SumOfExprs(List([r \in 1..Len(mm_args.amat) |->
        SumOfExprs(List([j \in 1..Len(mm_args.ekcounter) |->
            LET e == mm_args.ekcounter[j].n_vector
            IN  ExprScale(
                    TaylorCoefficient(
                        TimesPowers(mm_args.amat[r], mm_args.ymat, mm_args.kvec, e),
                        mm_args.ymat, c),
                    StoichPower(mm_args.S, r, e) * BinomialProduct(mm_args.kvec, e))]))]))

IsZeroVector(v) == \A i \in 1..Len(v) : v[i] = 0

IsUnitVector(v, i) == \A j \in 1..Len(v) : v[j] = (IF j = i THEN 1 ELSE 0)

\* C15: with kvec the unit vector of species i and the single e-vector e = kvec,
\* the entry of eq_mixedmoments for the counter entry c is the sum over the
\* reactions r of S[i, r] times the Taylor coefficient of a_r for c; the entry
\* of the all-zero counter entry is the sum of S[i, r] * a_r.
C15_UnitVectorGivesRates ==
    \A i \in 1..Len(mm_args.kvec) :
        ( /\ MixedEnded
          /\ EveryReactionHasColumn
          /\ IsUnitVector(mm_args.kvec, i)
          /\ Len(mm_args.ekcounter) = 1
          /\ mm_args.ekcounter[1].n_vector = mm_args.kvec )
        => /\ mm_pc = "returned"
           /\ Len(mm_result) = Len(mm_args.counter)
           /\ \A p \in 1..Len(mm_args.counter) :
                LET c == mm_args.counter[p].n_vector
                IN  /\ mm_result[p] =
                          SumOfExprs(List([r \in 1..Len(mm_args.amat) |->
                              ExprScale(TaylorCoefficient(mm_args.amat[r], mm_args.ymat, c),
                                        mm_args.S[i][r])]))
                    /\ IsZeroVector(c) =>
                          mm_result[p] =
                              SumOfExprs(List([r \in 1..Len(mm_args.amat) |->
                                  ExprScale(mm_args.amat[r], mm_args.S[i][r])]))

\* a call with a unit kvec and e = kvec returned; one reaction leaves the
\* species alone, another changes it, and the entries of the zero counter
\* entry and of a higher one are not zero
C15_Witness ==
    /\ mm_pc = "returned"
    /\ Len(mm_args.ekcounter) = 1
    /\ mm_args.ekcounter[1].n_vector = mm_args.kvec
    /\ Len(mm_args.amat) >= 2
    /\ Len(mm_args.counter) >= 2
    /\ \E i \in 1..Len(mm_args.kvec) :
         /\ IsUnitVector(mm_args.kvec, i)
         /\ \E r, q \in 1..Len(mm_args.amat) :
              mm_args.S[i][r] = 0 /\ mm_args.S[i][q] # 0
    /\ mm_result[1] # ZeroExpr
    /\ \E p \in 2..Len(mm_result) : mm_result[p] # ZeroExpr

ZeroRow(S, i) == \A r \in 1..Cols(S) : S[i][r] = 0

\* kvec is not zero in component i and zero in every other
OnlyComponent(v, i) == v[i] >= 1 /\ \A j \in 1..Len(v) : j # i => v[j] = 0

\* the case of C18: species i takes part in no reaction, kvec names species i
\* only, every e-vector of the list is not zero
ZeroRowCase(i) ==
    /\ MixedEnded
    /\ EveryReactionHasColumn
    /\ ZeroRow(mm_args.S, i)
    /\ OnlyComponent(mm_args.kvec, i)
    /\ \A j \in 1..Len(mm_args.ekcounter) :
         ~IsZeroVector(mm_args.ekcounter[j].n_vector)

\* C18: when row i of the stoichiometry matrix is zero and kvec is non-zero
\* only in component i, the stoichiometric factor of every non-zero e-vector
\* bounded by kvec is 0 for every reaction, and eq_mixedmoments returns a row
\* of zeros and raises nothing.
C18_ZeroRowGivesZero ==
    \A i \in 1..Len(mm_args.kvec) :
        ZeroRowCase(i) =>
            /\ \A r \in 1..Len(mm_args.amat), j \in 1..Len(mm_args.ekcounter) :
                 make_s_pow_e(mm_args.S, r - 1, mm_args.ekcounter[j]) = 0
            /\ mm_pc = "returned"
            /\ mm_raised = NoException
            /\ Len(mm_result) = Len(mm_args.counter)
            /\ \A p \in 1..Len(mm_result) : mm_result[p] = ZeroExpr

\* a call for a species of a two-species model that takes part in none of the
\* two reactions, with kvec twice that species and two e-vectors, returned
C18_Witness ==
    /\ mm_pc = "returned"
    /\ Len(mm_args.amat) >= 2
    /\ Len(mm_args.ymat) >= 2
    /\ Len(mm_args.ekcounter) >= 2
    /\ \E i \in 1..Len(mm_args.kvec) : ZeroRowCase(i) /\ mm_args.kvec[i] = 2

(* ===================== substitute_raw_with_central ===================== *)

\* In this part an expression is kept as the set of symbols that occur in it,
\* and an equation to solve as the degree in which every symbol occurs in it.
\* Simplification removes no symbol that cannot cancel, so a symbol absent
\* from the set is absent from the expression.

\* raw_to_central (centralmoments side): one expression per central moment of
\* order > 1.  The central moment of index n is a sum over the raw moments of
\* the indices k <= n, each times a power of the means; its own raw moment
\* occurs once.
raw_to_central(n_counter_, species_, k_counter_) ==
    LET central == SelectSeq(n_counter_, LAMBDA m : order(m) > 1)
        below(n) == {j \in 1..Len(k_counter_) :
                        /\ order(k_counter_[j]) > 1
                        /\ Bounded(k_counter_[j].n_vector, n)}
        means(n) == {i \in 1..Len(species_) : n[i] > 0}
    IN  [p \in 1..Len(central) |->
            LET n == central[p].n_vector
            IN  [s \in {k_counter_[j].symbol : j \in below(n)}
                        \cup {species_[i] : i \in means(n)} |->
                    IF \E i \in means(n) : species_[i] = s
                    THEN n[CHOOSE i \in means(n) : species_[i] = s]
                    ELSE 1]]

\* line 76: the raw symbols of order above 0
RawLhsFromFirstOrder(k_counter_) ==
    LET raws == SelectSeq(k_counter_, LAMBDA raw : order(raw) > 0)
    IN  [i \in 1..Len(raws) |-> raws[i].symbol]

\* line 76: raw_lhs
RawLhs(k_counter_) ==
    LET raws == SelectSeq(k_counter_, LAMBDA raw : order(raw) > 1)
    IN  [i \in 1..Len(raws) |-> raws[i].symbol]

\* line 78: central_symbols
CentralSymbols(n_counter_) ==
    LET centrals == SelectSeq(n_counter_, LAMBDA central : order(central) > 1)
    IN  [i \in 1..Len(centrals) |-> centrals[i].symbol]

Min(a, b) == IF a < b THEN a ELSE b

\* line 80: cfr - cs for (cs, cfr) in zip(central_symbols, central_from_raw_exprs)
EqToSolve(central_symbols, central_from_raw_exprs) ==
    [i \in 1..Min(Len(central_symbols), Len(central_from_raw_exprs)) |->
        LET cfr == central_from_raw_exprs[i]
            cs  == central_symbols[i]
        IN  [s \in (DOMAIN cfr) \cup {cs} |-> IF s \in DOMAIN cfr THEN cfr[s] ELSE 1]]

\* sp.solve(equation, symbol): as many solutions as the degree of the symbol in
\* the equation (none when it does not occur); each is an expression in the
\* other symbols of the equation
Solve(equation, symbol) ==
    LET degree == IF symbol \in DOMAIN equation THEN equation[symbol] ELSE 0
    IN  [i \in 1..degree |-> [root |-> i, symbols |-> (DOMAIN equation) \ {symbol}]]

\* line 83: solved_xs
SolvedXs(eq_to_solve, raw_lhs) ==
    [i \in 1..Min(Len(eq_to_solve), Len(raw_lhs)) |-> Solve(eq_to_solve[i], raw_lhs[i])]

\* sympy's Subs takes whatever point it is given
SubsAcceptsAnyPoint(point) == FALSE

\* sympy's Subs(expr, variable, point) with a list as point: ValueError unless
\* the list has one value for the one variable
SubsRaises(point) == Len(point) # 1

\* Subs(x, rlhs, sx).doit(): the occurrences of rlhs replaced by the point
Subs(x, rlhs, sx) ==
    IF rlhs \in x
    THEN (x \ {rlhs}) \cup UNION {sx[i].symbols : i \in 1..Len(sx)}
    ELSE x

\* the pairs in the order given
NotReversed(xs) == xs

\* reversed(xs)
Reversed(xs) == [i \in 1..Len(xs) |-> xs[Len(xs) + 1 - i]]

\* out_exprs.applyfunc(sp.simplify), as a step
Simplified(w) == [w EXCEPT !.steps = Append(@, [op |-> "simplify"])]

\* line 93 followed by a simplification
LoopBodySimplified(w, rlhs, sx) ==
    Simplified([w EXCEPT !.out_exprs = [i \in 1..Len(@) |-> Subs(@[i], rlhs, sx)],
                         !.steps = Append(@, [op |-> "subs", symbol |-> rlhs, by |-> sx])])

\* line 93: one pass of the loop
LoopBody(w, rlhs, sx) ==
    [w EXCEPT !.out_exprs = [i \in 1..Len(@) |-> Subs(@[i], rlhs, sx)],
              !.steps = Append(@, [op |-> "subs", symbol |-> rlhs, by |-> sx])]

RECURSIVE SubstituteLoop(_, _, _)
\* lines 92-93 from pair number i on: the loop stops where Subs raises
SubstituteLoop(pairs, i, w) ==
    IF i > Len(pairs) THEN w
    ELSE IF Len(w.out_exprs) > 0 /\ SubsRaises(pairs[i][2])
    THEN [w EXCEPT !.raised = [type |-> "ValueError", why |-> "Subs"]]
    ELSE SubstituteLoop(pairs, i + 1, LoopBody(w, pairs[i][1], pairs[i][2]))

\* lines 62-96
substitute_raw_with_central(central_moments_exprs, central_from_raw_exprs, n_counter_, k_counter_) ==
    LET raw_lhs == RawLhs(k_counter_)
        central_symbols == CentralSymbols(n_counter_)
        eq_to_solve == EqToSolve(central_symbols, central_from_raw_exprs)
        solved_xs == SolvedXs(eq_to_solve, raw_lhs)
        pairs == [i \in 1..Min(Len(raw_lhs), Len(solved_xs)) |->
                     <<raw_lhs[i], solved_xs[i]>>]
        w == SubstituteLoop(Reversed(pairs), 1,
                            [out_exprs |-> central_moments_exprs,
                             steps |-> <<>>, raised |-> NoException])
    IN  IF w.raised # NoException
        THEN [result |-> None, steps |-> w.steps, raised |-> w.raised]
        ELSE [result |-> Simplified(w).out_exprs, steps |-> Simplified(w).steps,
              raised |-> NoException]

\* what the entries of central_moments_exprs refer to: each to the raw moment of
\* its own index, each to every raw moment, or none to any raw moment
ExprShapes == {"own", "all", "none"}

\* the expressions of the central moments of order > 1, then one per species
CentralMomentsExprs(shape, n_counter_, k_counter_, species_) ==
    LET raw_lhs == RawLhs(k_counter_)
        central_symbols == CentralSymbols(n_counter_)
        raws(p) == IF shape = "own" THEN {raw_lhs[p]}
                   ELSE IF shape = "all" THEN {raw_lhs[i] : i \in 1..Len(raw_lhs)}
                   ELSE {}
    IN  [p \in 1..Len(central_symbols) |->
            raws(p) \cup {central_symbols[p]} \cup {species_[i] : i \in 1..Len(species_)}]
        \o [i \in 1..Len(species_) |->
               (IF shape = "all" THEN {raw_lhs[j] : j \in 1..Len(raw_lhs)} ELSE {})
                   \cup {species_[i]}]

\* what is wrong with one of the expressions handed in as central_from_raw_exprs
FaultKinds == {"absent", "squared", "higher"}

\* central_from_raw_exprs with expression p changed: its own raw moment
\* absent, or squared, or the highest raw moment added
WithFault(exprs, raw_lhs, p, kind) ==
    LET own  == raw_lhs[p]
        last == raw_lhs[Len(raw_lhs)]
        e    == exprs[p]
    IN  [exprs EXCEPT ![p] =
            IF kind = "absent" THEN [s \in (DOMAIN e) \ {own} |-> e[s]]
            ELSE IF kind = "squared" THEN [e EXCEPT ![own] = 2]
            ELSE [s \in (DOMAIN e) \cup {last} |-> IF s \in DOMAIN e THEN e[s] ELSE 1]]

InitSubstitute ==
    /\ sub_pc = "called"
    /\ \E sp \in MixedSpecies, N \in 1..MaxOrder, shape \in ExprShapes :
         LET counters == generate_n_and_k_counters(N, sp)
             cfr == raw_to_central(counters.n_counter, sp, counters.k_counter)
             raw_lhs == RawLhs(counters.k_counter)
         IN  \E given \in {cfr} \cup {WithFault(cfr, raw_lhs, p, kind) :
                                        p \in 1..Len(cfr), kind \in FaultKinds} :
               sub_args = [central_moments_exprs |->
                               CentralMomentsExprs(shape, counters.n_counter,
                                                   counters.k_counter, sp),
                           central_from_raw_exprs |-> given,
                           n_counter |-> counters.n_counter,
                           k_counter |-> counters.k_counter]
    /\ sub_steps = <<>>
    /\ sub_result = None
    /\ sub_raised = NoException
    /\ IdleCounters
    /\ IdleMEA
    /\ IdleODE
    /\ IdleMixedMoments
    /\ IdleParse

\* substitute_raw_with_central(central_moments_exprs, central_from_raw_exprs,
\*                             n_counter, k_counter)
SubstituteRawWithCentral ==
    /\ sub_pc = "called"
    /\ LET r == substitute_raw_with_central(sub_args.central_moments_exprs,
                                            sub_args.central_from_raw_exprs,
                                            sub_args.n_counter, sub_args.k_counter)
       IN  /\ sub_steps' = r.steps
           /\ sub_result' = r.result
           /\ sub_raised' = r.raised
           /\ sub_pc' = IF r.raised = NoException THEN "returned" ELSE "raised"
    /\ UNCHANGED <<sub_args, cg_vars, mea_vars, ode_vars, mm_vars, pm_vars>>

NextSubstitute == SubstituteRawWithCentral

SpecSubstitute == InitSubstitute /\ [][NextSubstitute]_vars

(* ---------------- properties: substitute_raw_with_central -------------- *)

SubstituteEnded == sub_pc \in {"returned", "raised"}

\* the raw moments of order > 1 of the call
RawMoments == SelectSeq(sub_args.k_counter, LAMBDA raw : order(raw) > 1)

RawSymbolSet == {RawMoments[i].symbol : i \in 1..Len(RawMoments)}

\* the order of the raw moment with this symbol
RawOrder(symbol) ==
    order(RawMoments[CHOOSE i \in 1..Len(RawMoments) : RawMoments[i].symbol = symbol])

\* the solutions of the equations of the call, one list per raw symbol
SolutionsOfCall ==
    SolvedXs(EqToSolve(CentralSymbols(sub_args.n_counter),
                       sub_args.central_from_raw_exprs),
             RawLhs(sub_args.k_counter))

\* every equation has one solution, and the solution for a raw symbol refers
\* to raw symbols of lower order only
SolutionsReferBelow ==
    \A p \in 1..Len(SolutionsOfCall) :
        /\ Len(SolutionsOfCall[p]) = 1
        /\ \A s \in SolutionsOfCall[p][1].symbols \cap RawSymbolSet :
             RawOrder(s) < RawOrder(RawLhs(sub_args.k_counter)[p])

\* the substitutions among the steps
Substitutions == SelectSeq(sub_steps, LAMBDA st : st.op = "subs")

\* C13: given that the solution for a raw symbol of order m refers to raw
\* symbols of order below m only, substitute_raw_with_central makes one
\* substitution per raw symbol of order > 1, none before one of a raw symbol of
\* higher order, and no raw symbol of order > 1 occurs in a returned expression.
C13_RawEliminated ==
    (SubstituteEnded /\ SolutionsReferBelow) =>
        /\ sub_pc = "returned"
        /\ Len(Substitutions) = Len(RawMoments)
        /\ {Substitutions[i].symbol : i \in 1..Len(Substitutions)} = RawSymbolSet
        /\ \A i, j \in 1..Len(Substitutions) :
             i < j => RawOrder(Substitutions[i].symbol) >= RawOrder(Substitutions[j].symbol)
        /\ \A i \in 1..Len(sub_result) : sub_result[i] \cap RawSymbolSet = {}

\* a call with raw moments of orders 2 and 3, every expression referring to
\* every raw moment, returned
C13_Witness ==
    /\ sub_pc = "returned"
    /\ SolutionsReferBelow
    /\ \E s, t \in RawSymbolSet : RawOrder(s) = 2 /\ RawOrder(t) = 3
    /\ Len(sub_args.k_counter[1].n_vector) = 2
    /\ \A i \in 1..Len(sub_args.central_moments_exprs) :
         RawSymbolSet \subseteq sub_args.central_moments_exprs[i]

\* an equation of the call has no solution or several
SomeEquationNotSolvedOnce ==
    \E p \in 1..Len(SolutionsOfCall) : Len(SolutionsOfCall[p]) # 1

Alternating ==
    /\ Len(sub_steps) = 2 * Len(Substitutions)
    /\ \A i \in 1..Len(sub_steps) :
         sub_steps[i].op = (IF i % 2 = 1 THEN "subs" ELSE "simplify")

\* C20 as stated: every substitution is followed by a simplification, so there
\* are as many simplifications as substitutions and the two alternate
C20_AsStated == sub_pc = "returned" => Alternating

\* C20: the substitutions follow one another without a simplification in
\* between; the expressions are simplified once, after the last substitution,
\* and not at all when the call raises.
C20_SimplifiedOnceAtEnd ==
    /\ sub_pc = "returned" =>
         /\ Len(sub_steps) = Len(Substitutions) + 1
         /\ sub_steps[Len(sub_steps)].op = "simplify"
         /\ \A i \in 1..(Len(sub_steps) - 1) : sub_steps[i].op = "subs"
    /\ sub_pc = "raised" => \A i \in 1..Len(sub_steps) : sub_steps[i].op = "subs"

\* a call that made several substitutions returned
C20_Witness ==
    /\ sub_pc = "returned"
    /\ Len(Substitutions) >= 3

\* the entries of order > 1 of a counter
AboveFirstOrder(counter) == SelectSeq(counter, LAMBDA m : order(m) > 1)

\* C19: for S >= 1 and N >= 1 the entries of order > 1 of k_counter and those
\* of n_counter are equally many and have the same multi-index position by
\* position, so every equation of substitute_raw_with_central pairs the raw
\* and the central symbol of one multi-index, and no symbol is left unpaired.
C19_CountersPairUp ==
    ReturnedValid =>
        LET raws     == AboveFirstOrder(k_counter)
            centrals == AboveFirstOrder(n_counter)
            raw_lhs  == RawLhs(k_counter)
            central_symbols == CentralSymbols(n_counter)
            equations == EqToSolve(central_symbols,
                                   raw_to_central(n_counter, species, k_counter))
        IN  /\ Len(raws) = Len(centrals)
            /\ \A p \in 1..Len(raws) : raws[p].n_vector = centrals[p].n_vector
            /\ Len(raw_lhs) = Len(raws)
            /\ Len(central_symbols) = Len(centrals)
            /\ Len(equations) = Len(raw_lhs)
            /\ \A p \in 1..Len(equations) :
                 /\ raw_lhs[p] = raws[p].symbol
                 /\ central_symbols[p] = centrals[p].symbol
                 /\ central_symbols[p] \in DOMAIN equations[p]
                 /\ raw_lhs[p] \in DOMAIN equations[p]

\* the counters of two species up to order 3 were returned: seven pairs
C19_Witness ==
    /\ ReturnedValid
    /\ Len(species) = 2
    /\ n_moments = 3
    /\ Len(RawLhs(k_counter)) = 7
    /\ Len(CentralSymbols(n_counter)) = 7

(* ============================= parse_model ============================= *)

\* A line of the file is a sequence of pieces of text; ":", " " and "\n" are
\* pieces of their own, so that the tests on a line can be made on its pieces.
STRING_RIGHT_HAND == <<"RHS", " ", "of", " ", "equations", ":">>

STRING_LEFT_HAND == <<"LHS", ":">>

STRING_CONSTANT == <<"Constants", ":">>

STRING_MOM == <<"List", " ", "of", " ", "moments", ":">>

Whitespace == {" ", "\n"}

RECURSIVE rstrip(_)
\* line.rstrip()
rstrip(line) ==
    IF line # <<>> /\ line[Len(line)] \in Whitespace
    THEN rstrip(SubSeq(line, 1, Len(line) - 1))
    ELSE line

\* ":" in line
HasColon(line) == \E i \in 1..Len(line) : line[i] = ":"

\* lines 93-98: one pass of the loop over the lines
SplitLine(w, line) ==
    IF HasColon(line)
    THEN [field |-> rstrip(line),
          all_fields |-> [f \in (DOMAIN w.all_fields) \cup {rstrip(line)} |->
                             IF f = rstrip(line) THEN <<>> ELSE w.all_fields[f]]]
    ELSE IF w.field # None
    THEN IF rstrip(line) # <<>>
         THEN [w EXCEPT !.all_fields[w.field] = Append(@, rstrip(line))]
         ELSE w
    ELSE w

RECURSIVE SplitLines(_, _, _)
\* lines 89-98: all_fields after the first n lines
SplitLines(lines, n, w) ==
    IF n = 0 THEN w ELSE SplitLine(SplitLines(lines, n - 1, w), lines[n])

\* the text of a line
Text(line) == Join(line, "")

\* eval(l) of an entry of the list of moments
Eval(text) ==
    CASE text = "[0]" -> <<0>>
      [] text = "[1]" -> <<1>>
      [] text = "[2]" -> <<2>>

\* lines 105, 110, 115, 120: the message printed for a missing field
NotInFile(field, input_filename) ==
    <<"The field \"", Text(field), "\" is not in the input file \"", input_filename, "\"">>

\* lines 67-126: what is printed, and the ODEProblem returned or the exception
parse_model(input_filename, lines) ==
    LET all_fields == SplitLines(lines, Len(lines),
                                 [field |-> None, all_fields |-> << >>]).all_fields
        missing(field) == field \notin DOMAIN all_fields
        failed(field) == [printed |-> <<NotInFile(field, input_filename)>>,
                          result |-> None,
                          raised |-> [type |-> "KeyError", why |-> Text(field)]]
        texts(field) == [i \in 1..Len(all_fields[field]) |-> Text(all_fields[field][i])]
    IN  IF missing(STRING_RIGHT_HAND) THEN failed(STRING_RIGHT_HAND)
        ELSE IF missing(STRING_LEFT_HAND) THEN failed(STRING_LEFT_HAND)
        ELSE IF missing(STRING_CONSTANT) THEN failed(STRING_CONSTANT)
        ELSE IF missing(STRING_MOM)
        THEN [failed(STRING_MOM) EXCEPT
                 !.printed = <<NotInFile(STRING_CONSTANT, input_filename)>>]
        ELSE LET moments == [i \in 1..Len(all_fields[STRING_MOM]) |->
                                Eval(Text(all_fields[STRING_MOM][i]))]
                 problem == ODEProblem_init(texts(STRING_LEFT_HAND),
                                            texts(STRING_RIGHT_HAND),
                                            texts(STRING_CONSTANT), moments)
             IN  IF problem.raised # NoException
                 THEN [printed |-> <<>>, result |-> None, raised |-> problem.raised]
                 ELSE [printed |-> <<>>,
                       result |-> [left_hand_side  |-> problem.left_hand_side,
                                   right_hand_side |-> problem.right_hand_side,
                                   constants       |-> problem.constants,
                                   moment_dic      |-> problem.moment_dic],
                       raised |-> NoException]

InputFilename == "model.txt"

\* the four required headers
RequiredFields == {STRING_RIGHT_HAND, STRING_LEFT_HAND, STRING_CONSTANT, STRING_MOM}

\* the entries of a section of a one-species problem with n equations
SectionEntries(field, n) ==
    [i \in 1..n |->
        IF field = STRING_MOM THEN <<"[" \o ToString(i - 1) \o "]", "\n">>
        ELSE IF field = STRING_LEFT_HAND THEN <<"y_" \o ToString(i - 1), "\n">>
        ELSE IF field = STRING_RIGHT_HAND THEN <<"-c_0*y_" \o ToString(i - 1), "\n">>
        ELSE <<"c_" \o ToString(i - 1), "\n">>]

\* the orders in which a file holds its sections
SectionOrders ==
    { <<STRING_LEFT_HAND, STRING_RIGHT_HAND, STRING_CONSTANT, STRING_MOM>>,
      <<STRING_MOM, STRING_CONSTANT, STRING_RIGHT_HAND, STRING_LEFT_HAND>> }

RECURSIVE FileOf(_, _, _)
\* the lines of the sections of order that are present, header first
FileOf(sections, present, n) ==
    IF sections = <<>> THEN <<>>
    ELSE (IF Head(sections) \in present
          THEN <<Append(Head(sections), "\n")>> \o SectionEntries(Head(sections), n)
          ELSE <<>>)
         \o FileOf(Tail(sections), present, n)

BlankLines == { <<"\n">>, <<" ", "\n">> }

\* lines with blank put in after the first p of them
InsertAt(lines, p, blank) ==
    SubSeq(lines, 1, p) \o <<blank>> \o SubSeq(lines, p + 1, Len(lines))

\* the files parse_model is given
InputFiles ==
    LET plain == {FileOf(sections, present, n) :
                     sections \in SectionOrders,
                     present \in SUBSET RequiredFields,
                     n \in 1..(MaxRows - 1)}
    IN  plain \cup UNION { {InsertAt(f, p, blank) : p \in 0..Len(f), blank \in BlankLines} :
                            f \in plain }

InitParse ==
    /\ pm_pc = "called"
    /\ pm_file \in InputFiles
    /\ pm_printed = <<>>
    /\ pm_result = None
    /\ pm_raised = NoException
    /\ IdleCounters
    /\ IdleMEA
    /\ IdleODE
    /\ IdleMixedMoments
    /\ IdleSubstitute

\* parse_model(input_filename)
ParseModel ==
    /\ pm_pc = "called"
    /\ LET r == parse_model(InputFilename, pm_file)
       IN  /\ pm_printed' = r.printed
           /\ pm_result' = r.result
           /\ pm_raised' = r.raised
           /\ pm_pc' = IF r.raised = NoException THEN "returned" ELSE "raised"
    /\ UNCHANGED <<pm_file, cg_vars, mea_vars, ode_vars, mm_vars, sub_vars>>

NextParse == ParseModel

SpecParse == InitParse /\ [][NextParse]_vars

(* ------------------------ properties: parse_model ---------------------- *)

ParseEnded == pm_pc \in {"returned", "raised"}

\* the required headers no line of the file carries
AbsentFields ==
    {field \in RequiredFields :
        \A i \in 1..Len(pm_file) : rstrip(pm_file[i]) # field}

\* the file without its blank lines
WithoutBlankLines == SelectSeq(pm_file, LAMBDA line : rstrip(line) # <<>>)

\* C16: when one of the four required headers is absent parse_model fails, it
\* returns no ODEProblem and the section it reports is one that is absent; when
\* all four are present, blank lines do not change the parsed result.
C16_MissingSectionReported ==
    ParseEnded =>
        /\ AbsentFields # {} =>
             /\ pm_pc = "raised"
             /\ pm_result = None
             /\ Len(pm_printed) = 1
             /\ \E field \in AbsentFields : pm_printed[1][2] = Text(field)
        /\ AbsentFields = {} =>
             LET r == parse_model(InputFilename, WithoutBlankLines)
             IN  pm_result = r.result /\ pm_raised = r.raised

(* ========================= the whole program =========================== *)

\* a session calls one of the entry points
Init == InitCounters \/ InitMEA \/ InitODE \/ InitMixedMoments \/ InitSubstitute
            \/ InitParse

Next == NextCounters \/ NextMEA \/ NextODEUse \/ NextMixedMoments \/ NextSubstitute
            \/ NextParse

Spec == Init /\ [][Next]_vars

=============================================================================
